---- MODULE Spec2Model ----
(***************************************************************************)
(* Model of streamlit_app.py: the transcript pipeline run by main() when   *)
(* the Download button is pressed (create and clear the output directory,  *)
(* list the channel's videos, download and clean each transcript,          *)
(* concatenate the per-video files), and the pure text functions it uses.  *)
(*                                                                         *)
(* A text is a sequence of one-character strings, so that joining,         *)
(* splitting and the timestamp match are computed character by character.  *)
(***************************************************************************)
EXTENDS Integers, Sequences, FiniteSets, TLC

\* ------------------------------------------------------------------ bounds

\* Largest number of video identifiers a channel listing returns.
MaxVideos == 2
\* Largest number of pieces a text handed to remove_timestamps is built of.
MaxPieces == 3

\* ------------------------------------------------------------------- texts

NL == "\n"
SP == " "

Digits == {"0", "1", "2", "3", "4", "5", "6", "7", "8", "9"}

\* The class \d of the pattern, as a token of its own.
D == "\\d"

\* r"\d{2}:\d{2}:\d{2},\d{3} --> \d{2}:\d{2}:\d{2},\d{3}"
timestamp_pattern ==
    << D, D, ":", D, D, ":", D, D, ",", D, D, D,
       " ", "-", "-", ">", " ",
       D, D, ":", D, D, ":", D, D, ",", D, D, D >>

\* One pattern token against one character.
TokenMatches(tok, ch) == IF tok = D THEN ch \in Digits ELSE ch = tok

\* Mutant of PatternMatch: re.fullmatch, the whole line must be the timestamp.
PatternFullMatch(pattern, line) ==
    /\ Len(line) = Len(pattern)
    /\ \A k \in 1..Len(pattern) : TokenMatches(pattern[k], line[k])

\* re.Pattern.match: the pattern matches at the START of the line; what
\* follows the match in the line is not looked at.
PatternMatch(pattern, line) ==
    /\ Len(line) >= Len(pattern)
    /\ \A k \in 1..Len(pattern) : TokenMatches(pattern[k], line[k])

\* str.split(sep) for a one-character sep: one piece more than there are
\* separators, piece j running from after separator j-1 to before separator j.
SepPositions(s, sep) == { k \in 1..Len(s) : s[k] = sep }

NthSep(s, sep, j) ==
    CHOOSE k \in SepPositions(s, sep) :
        Cardinality({ m \in SepPositions(s, sep) : m <= k }) = j

Split(s, sep) ==
    LET n == Cardinality(SepPositions(s, sep))
    IN  [ j \in 1..(n + 1) |->
            SubSeq(s,
                   IF j = 1 THEN 1 ELSE NthSep(s, sep, j - 1) + 1,
                   IF j = n + 1 THEN Len(s) ELSE NthSep(s, sep, j) - 1) ]

\* sep.join(parts)
RECURSIVE Join(_, _)
Join(sep, parts) ==
    IF Len(parts) = 0 THEN << >>
    ELSE IF Len(parts) = 1 THEN parts[1]
    ELSE parts[1] \o << sep >> \o Join(sep, Tail(parts))

\* [line for line in lines if not timestamp_pattern.match(line)]
RECURSIVE FilterLines(_)
FilterLines(lines) ==
    IF Len(lines) = 0 THEN << >>
    ELSE IF PatternMatch(timestamp_pattern, Head(lines))
         THEN FilterLines(Tail(lines))
         ELSE << Head(lines) >> \o FilterLines(Tail(lines))

filtered_lines(srt_text) == FilterLines(Split(srt_text, NL))

remove_timestamps(srt_text) == Join(NL, filtered_lines(srt_text))

\* Mutant of get_transcript_text: "".join, no space between the fragments.
RECURSIVE JoinedWithoutSeparator(_)
JoinedWithoutSeparator(fragments) ==
    IF Len(fragments) = 0 THEN << >>
    ELSE Head(fragments) \o JoinedWithoutSeparator(Tail(fragments))

\* " ".join([item["text"] for item in transcript])
get_transcript_text(fragments) == Join(SP, fragments)

\* str.endswith(suffix)
EndsWith(name, suffix) ==
    /\ Len(name) >= Len(suffix)
    /\ SubSeq(name, Len(name) - Len(suffix) + 1, Len(name)) = suffix

TxtSuffix == << ".", "t", "x", "t" >>

\* f"{video_id}.txt"
TranscriptFileName(video_id) == video_id \o TxtSuffix

\* ------------------------------------------------- the values that are drawn

\* A caption line that matches the pattern, and one that misses it by a dash.
TS == << "0", "0", ":", "0", "0", ":", "0", "1", ",", "0", "0", "0", " ", "-", "-", ">", " ", "0", "0", ":", "0", "0", ":", "0", "4", ",", "0", "0", "0" >>
TSbad == << "0", "0", ":", "0", "0", ":", "0", "1", ",", "0", "0", "0", " ", "-", ">", " ", "0", "0", ":", "0", "0", ":", "0", "4", ",", "0", "0", "0" >>

\* Video identifiers a channel listing may return.
VideoIds == { << "a", "1" >>, << "a", "2" >> }

\* What YouTubeTranscriptApi.get_transcript does for a video: it raises, or it
\* returns the caption fragments (their "text" fields).
Raises == [raises |-> TRUE, fragments |-> << >>]
Returns(fragments) == [raises |-> FALSE, fragments |-> fragments]

ApiOutcomes ==
    { Raises,
      Returns(<< >>),
      Returns(<< << "h", "i" >>, << "y", "o" >> >>),
      Returns(<< TS >>),
      Returns(<< << "a", NL >> \o TS \o << NL, "b" >> >>) }

\* Files an earlier run, or anything else, may have left in the output
\* directory, and the directory "sub" it may hold.
OldA1 == << "a", "1", ".", "t", "x", "t" >>
OldTxt == << "o", "l", "d", ".", "t", "x", "t" >>
OldLog == << "n", "o", "t", "e", "s", ".", "l", "o", "g" >>
SubDir == << "s", "u", "b" >>

StaleContent ==
    (OldA1 :> << "z" >>) @@ (OldTxt :> << "o" >>) @@ (OldLog :> << "n" >>)

StaleNames == DOMAIN StaleContent

\* final_file: "combined_transcripts.txt" when the field is left empty,
\* the text typed plus ".txt" otherwise.
DefaultFinal == << "c", "o", "m", "b", "i", "n", "e", "d", "_", "t", "r", "a", "n", "s", "c", "r", "i", "p", "t", "s", ".", "t", "x", "t" >>
TypedName == << "x" >>
FinalFileName(typed) == IF typed = << >> THEN DefaultFinal ELSE typed \o TxtSuffix

FinalNames == { FinalFileName(<< >>), FinalFileName(TypedName) }

\* Listings of at most MaxVideos identifiers.
Listings == UNION { [1..n -> VideoIds] : n \in 0..MaxVideos }

\* -------------------------------------------------------------- the state

AllRuns == {1, 2}

VARIABLES
    dirExists,    \* whether the output directory "transcripts" exists
    files,        \* its regular files: name -> content
    subdirs,      \* the names of its subdirectories
    undeletable,  \* the names whose os.unlink raises
    cwd,          \* the files final_file may name: name -> content
    api,          \* what get_transcript does for each video identifier
    run,          \* per run of main(): its position and its local variables
    hist,         \* per run: what it has done so far (history, not program state)
    fragments,    \* the caption fragments of one fetch (text functions alone)
    srt_text,     \* their joined text, the argument of remove_timestamps
    cleaned_text, \* its result, the text download_transcript writes
    again,        \* remove_timestamps applied to cleaned_text once more
    cpc           \* position of the text functions' run

fsvars == << dirExists, files, subdirs, undeletable, cwd, api >>
textvars == << fragments, srt_text, cleaned_text, again, cpc >>
vars == << dirExists, files, subdirs, undeletable, cwd, api, run, hist,
           fragments, srt_text, cleaned_text, again, cpc >>

NoFiles == [n \in {} |-> << >>]

Without(f, name) == [n \in DOMAIN f \ {name} |-> f[n]]
WithFile(f, name, content) == (name :> content) @@ f

\* os.listdir(output_dir)
ListDir == DOMAIN files \cup subdirs

\* os.path.isfile(file_path)
IsFile(name) == name \in DOMAIN files

IdleRun ==
    [ pc |-> "idle", final_file |-> << >>, video_ids |-> << >>,
      total_videos |-> 0, i |-> 0, progress_bar |-> 0, status_text |-> 0,
      todo |-> {}, f_out |-> << >> ]

NoHistory ==
    [ written |-> NoFiles, downloaded |-> 0, atClear |-> {}, attempted |-> {},
      failed |-> {}, atCall |-> NoFiles, before |-> NoFiles,
      created |-> FALSE, fetches |-> 0, cleared |-> FALSE, listed |-> FALSE,
      error |-> "none" ]

\* The file system before the button is pressed: the output directory may
\* be missing; when it exists it may hold stale files, some of which cannot
\* be deleted, and a subdirectory; final_file may exist already.
InitFs ==
    /\ dirExists \in BOOLEAN
    /\ \E present \in SUBSET StaleNames :
          /\ dirExists \/ present = {}
          /\ files = [n \in present |-> StaleContent[n]]
          /\ undeletable \in SUBSET present
    /\ subdirs \in IF dirExists THEN {{}, {SubDir}} ELSE {{}}
    /\ \E old \in SUBSET FinalNames : cwd = [n \in old |-> << "p" >>]
    /\ api \in [VideoIds -> ApiOutcomes]

InitText ==
    /\ fragments = << >>
    /\ srt_text = << >>
    /\ cleaned_text = << >>
    /\ again = << >>
    /\ cpc = "off"

Init ==
    /\ InitFs
    /\ run = [r \in AllRuns |-> IdleRun]
    /\ hist = [r \in AllRuns |-> NoHistory]
    /\ InitText

Goto(r, label) == run' = [run EXCEPT ![r].pc = label]

\* ------------------------------------------------------------------ main()

\* if st.button("Download"): an empty channel URL is refused; otherwise
\* final_file is settled.
Press(r) ==
    /\ run[r].pc = "idle"
    /\ \E url_given \in BOOLEAN, typed \in {<< >>, TypedName} :
          IF ~url_given
          THEN Goto(r, "refused")
          ELSE run' = [run EXCEPT ![r].pc = "makedirs",
                                  ![r].final_file = FinalFileName(typed)]
    /\ hist' = [hist EXCEPT ![r].before = cwd]
    /\ UNCHANGED << fsvars, textvars >>

\* Mutant of MakeDirs: main() goes on to the listing without clearing.
MakeDirsSkipsClear(r) ==
    /\ run[r].pc = "makedirs"
    /\ dirExists' = TRUE
    /\ Goto(r, "listing")
    /\ UNCHANGED << files, subdirs, undeletable, cwd, api, hist, textvars >>

\* if not os.path.exists(output_dir): os.makedirs(output_dir)
MakeDirs(r) ==
    /\ run[r].pc = "makedirs"
    /\ dirExists' = TRUE
    /\ Goto(r, "clear")
    /\ UNCHANGED << files, subdirs, undeletable, cwd, api, hist, textvars >>

\* clear_transcript_folder: the listing the loop runs over.
ClearList(r) ==
    /\ run[r].pc = "clear"
    /\ IF dirExists
       THEN /\ run' = [run EXCEPT ![r].pc = "clearing", ![r].todo = ListDir]
            /\ hist' = [hist EXCEPT ![r].atClear = DOMAIN files]
       ELSE /\ Goto(r, "listing")
            /\ UNCHANGED hist
    /\ UNCHANGED << fsvars, textvars >>

\* One iteration of its loop: a regular file is unlinked; the error of an
\* unlink that raises is reported and the loop goes on.
Unlink(name) ==
    IF name \in undeletable THEN files ELSE Without(files, name)

\* Mutant of ClearStep: the loop stops at the first unlink that raises.
ClearStepStopsAtError(r) ==
    /\ run[r].pc = "clearing"
    /\ \E name \in run[r].todo :
          /\ run' = [run EXCEPT ![r].todo = IF IsFile(name) /\ name \in undeletable
                                            THEN {} ELSE @ \ {name}]
          /\ IF IsFile(name)
             THEN /\ files' = Unlink(name)
                  /\ hist' = [hist EXCEPT
                                ![r].attempted = @ \cup {name},
                                ![r].failed = IF name \in undeletable
                                              THEN @ \cup {name} ELSE @]
             ELSE UNCHANGED << files, hist >>
    /\ UNCHANGED << dirExists, subdirs, undeletable, cwd, api, textvars >>

ClearStep(r) ==
    /\ run[r].pc = "clearing"
    /\ \E name \in run[r].todo :
          /\ run' = [run EXCEPT ![r].todo = @ \ {name}]
          /\ IF IsFile(name)
             THEN /\ files' = Unlink(name)
                  /\ hist' = [hist EXCEPT
                                ![r].attempted = @ \cup {name},
                                ![r].failed = IF name \in undeletable
                                              THEN @ \cup {name} ELSE @]
             ELSE UNCHANGED << files, hist >>
    /\ UNCHANGED << dirExists, subdirs, undeletable, cwd, api, textvars >>

\* The loop is over: st.success("All transcript files cleared!")
ClearDone(r) ==
    /\ run[r].pc = "clearing"
    /\ run[r].todo = {}
    /\ Goto(r, "listing")
    /\ hist' = [hist EXCEPT ![r].cleared = TRUE]
    /\ UNCHANGED << fsvars, textvars >>

\* video_ids = get_all_video_ids(channel_url): the scraper raises, and the
\* exception leaves main(), or it returns the identifiers.
\* Mutant of ListFails: the exception is swallowed and the run goes on as
\* with an empty listing.
ListFailsSwallowed(r) ==
    /\ run[r].pc = "listing"
    /\ run' = [run EXCEPT ![r].pc = "loop", ![r].video_ids = << >>,
                          ![r].total_videos = 0, ![r].progress_bar = 0]
    /\ hist' = [hist EXCEPT ![r].listed = TRUE, ![r].error = "listing"]
    /\ UNCHANGED << fsvars, textvars >>

ListFails(r) ==
    /\ run[r].pc = "listing"
    /\ Goto(r, "raised")
    /\ hist' = [hist EXCEPT ![r].listed = TRUE, ![r].error = "listing"]
    /\ UNCHANGED << fsvars, textvars >>

ListVideos(r) ==
    /\ run[r].pc = "listing"
    /\ \E ids \in Listings :
          run' = [run EXCEPT ![r].pc = "loop",
                             ![r].video_ids = ids,
                             ![r].total_videos = Len(ids),
                             ![r].progress_bar = 0]
    /\ hist' = [hist EXCEPT ![r].listed = TRUE]
    /\ UNCHANGED << fsvars, textvars >>

\* Mutant of Progress: the percentage of the videos before video i.
ProgressZeroBased(i, total_videos) == ((i - 1) * 100) \div total_videos

\* int((i / total_videos) * 100): for the totals reached here the float
\* product truncates to the integer quotient.
Progress(i, total_videos) == (i * 100) \div total_videos

\* The head of an iteration of "for i, video_id in enumerate(video_ids, 1)":
\* the progress bar and the status text are set for video i.  With the
\* loop over, main() goes on to concatenate.
LoopHead(r) ==
    /\ run[r].pc = "loop"
    /\ IF run[r].i < Len(run[r].video_ids)
       THEN IF run[r].total_videos = 0
            THEN /\ Goto(r, "raised")    \* ZeroDivisionError
                 /\ hist' = [hist EXCEPT ![r].error = "division"]
            ELSE /\ run' = [run EXCEPT
                              ![r].pc = "download",
                              ![r].i = @ + 1,
                              ![r].progress_bar =
                                  Progress(run[r].i + 1, run[r].total_videos),
                              ![r].status_text = run[r].i + 1]
                 /\ UNCHANGED hist
       ELSE /\ Goto(r, "open")
            /\ UNCHANGED hist
    /\ UNCHANGED << fsvars, textvars >>

\* download_transcript's result for the fragments fetched: the text to write,
\* or nothing when the joined text is empty.
Cleaned(frags) ==
    LET transcript == get_transcript_text(frags)
    IN  IF transcript # << >>
        THEN [ok |-> TRUE, text |-> remove_timestamps(transcript)]
        ELSE [ok |-> FALSE, text |-> << >>]

\* download_transcript(video_id, output_dir): any exception is caught.
DownloadTranscript(r) ==
    /\ run[r].pc = "download"
    /\ LET video_id == run[r].video_ids[run[r].i]
           got == api[video_id]
           res == Cleaned(got.fragments)
           name == TranscriptFileName(video_id)
       IN  IF ~got.raises /\ res.ok
           THEN /\ files' = WithFile(files, name, res.text)
                /\ hist' = [hist EXCEPT
                              ![r].written = WithFile(@, name, res.text),
                              ![r].downloaded = @ + 1,
                              ![r].fetches = @ + 1]
           ELSE /\ files' = files
                /\ hist' = [hist EXCEPT ![r].downloaded = @ + 1,
                                        ![r].fetches = @ + 1]
    /\ Goto(r, "loop")
    /\ UNCHANGED << dirExists, subdirs, undeletable, cwd, api, textvars >>

\* ------------------------------------------------- concatenate_transcripts

\* open(final_file, "w"): the file is created or truncated.
OpenFinal(r) ==
    /\ run[r].pc = "open"
    /\ cwd' = WithFile(cwd, run[r].final_file, << >>)
    /\ run' = [run EXCEPT ![r].pc = "listdir", ![r].f_out = << >>]
    /\ hist' = [hist EXCEPT ![r].created = TRUE]
    /\ UNCHANGED << dirExists, files, subdirs, undeletable, api, textvars >>

\* for filename in os.listdir(output_dir)
ConcatList(r) ==
    /\ run[r].pc = "listdir"
    /\ run' = [run EXCEPT ![r].pc = "concat", ![r].todo = ListDir]
    /\ hist' = [hist EXCEPT ![r].atCall = files]
    /\ UNCHANGED << fsvars, textvars >>

\* Closing f_out writes what was buffered at the start of the file.
Flush(existing, buffered) ==
    buffered \o SubSeq(existing, Len(buffered) + 1, Len(existing))

CloseFinal(r) ==
    IF run[r].final_file \in DOMAIN cwd
    THEN WithFile(cwd, run[r].final_file,
                  Flush(cwd[run[r].final_file], run[r].f_out))
    ELSE WithFile(cwd, run[r].final_file, run[r].f_out)

\* Mutant of Selected: every listed name is read, whatever its suffix.
SelectedAnyName(filename) == TRUE

\* Which listed names are read.
Selected(filename) == EndsWith(filename, TxtSuffix)

\* What is written for a file read.
Chunk(content) == content \o << NL, NL >>

\* One iteration: a name ending in ".txt" is opened and read, and its content
\* plus two newlines written; opening a name that is no regular file (any
\* more) raises, which closes f_out and leaves main().
ConcatStep(r) ==
    /\ run[r].pc = "concat"
    /\ \E filename \in run[r].todo :
          IF ~Selected(filename)
          THEN /\ run' = [run EXCEPT ![r].todo = @ \ {filename}]
               /\ UNCHANGED << cwd, hist >>
          ELSE IF IsFile(filename)
          THEN /\ run' = [run EXCEPT
                            ![r].todo = @ \ {filename},
                            ![r].f_out = @ \o Chunk(files[filename])]
               /\ UNCHANGED << cwd, hist >>
          ELSE /\ cwd' = CloseFinal(r)
               /\ Goto(r, "raised")
               /\ hist' = [hist EXCEPT ![r].error = "open"]
    /\ UNCHANGED << dirExists, files, subdirs, undeletable, api, textvars >>

\* The listing is exhausted: the with block closes f_out.
ConcatDone(r) ==
    /\ run[r].pc = "concat"
    /\ run[r].todo = {}
    /\ cwd' = CloseFinal(r)
    /\ Goto(r, "done")
    /\ UNCHANGED << dirExists, files, subdirs, undeletable, api, hist, textvars >>

Step(r) ==
    \/ Press(r)
    \/ MakeDirs(r)
    \/ ClearList(r)
    \/ ClearStep(r)
    \/ ClearDone(r)
    \/ ListFails(r)
    \/ ListVideos(r)
    \/ LoopHead(r)
    \/ DownloadTranscript(r)
    \/ OpenFinal(r)
    \/ ConcatList(r)
    \/ ConcatStep(r)
    \/ ConcatDone(r)

\* One run of main() alone.
Next == Step(1)

Spec == Init /\ [][Next]_vars

\* ------------------------------------------- two runs of main() at once

\* Two sessions press Download against the same output directory: the
\* directory exists, may hold old.txt (deletable or not), and each fetch
\* raises or returns two fragments.
InitTwo ==
    /\ dirExists = TRUE
    /\ \E present \in SUBSET {OldTxt} :
          /\ files = [n \in present |-> StaleContent[n]]
          /\ undeletable \in SUBSET present
    /\ subdirs = {}
    /\ cwd = NoFiles
    /\ api \in [VideoIds -> {Raises, Returns(<< << "h", "i" >>, << "y", "o" >> >>)}]
    /\ run = [r \in AllRuns |-> IdleRun]
    /\ hist = [r \in AllRuns |-> NoHistory]
    /\ InitText

NextTwo == \E r \in AllRuns : Step(r)

SpecTwo == InitTwo /\ [][NextTwo]_vars

\* ------------------------------------------------- the text functions alone

\* The fragment texts a fetch is built of.
FragmentTexts ==
    { << >>,
      << "a" >>,
      << NL >>,
      TS,
      TSbad,
      << "a", NL >> \o TS,
      TS \o << NL, "b" >> }

FragmentSeqs == UNION { [1..n -> FragmentTexts] : n \in 0..MaxPieces }

InitClean ==
    /\ fragments \in FragmentSeqs
    /\ srt_text = << >>
    /\ cleaned_text = << >>
    /\ again = << >>
    /\ cpc = "fetch"
    /\ dirExists = TRUE
    /\ files = NoFiles
    /\ subdirs = {}
    /\ undeletable = {}
    /\ cwd = NoFiles
    /\ api = [v \in VideoIds |-> Returns(fragments)]
    /\ run = [r \in AllRuns |-> IdleRun]
    /\ hist = [r \in AllRuns |-> NoHistory]

\* The text part of download_transcript: join the fragments fetched and,
\* unless the joined text is empty, clean it for writing.
FetchAndClean ==
    /\ cpc = "fetch"
    /\ srt_text' = get_transcript_text(fragments)
    /\ cleaned_text' = Cleaned(fragments).text
    /\ cpc' = IF Cleaned(fragments).ok THEN "written" ELSE "skipped"
    /\ UNCHANGED << fsvars, run, hist, fragments, again >>

\* remove_timestamps applied to a text it has produced.
CleanAgain ==
    /\ cpc = "written"
    /\ again' = remove_timestamps(cleaned_text)
    /\ cpc' = "again"
    /\ UNCHANGED << fsvars, run, hist, fragments, srt_text, cleaned_text >>

NextClean == FetchAndClean \/ CleanAgain

SpecClean == InitClean /\ [][NextClean]_vars

\* ============================================================ properties

Range(seq) == { seq[k] : k \in 1..Len(seq) }

TxtNames(contents) == { n \in DOMAIN contents : EndsWith(n, TxtSuffix) }

\* The orders in which the names of a set can be listed, each name once.
Orders(names) ==
    { o \in [1..Cardinality(names) -> names] :
        \A a, b \in 1..Cardinality(names) : a # b => o[a] # o[b] }

\* The contents of the names of an order, each followed by two newlines.
RECURSIVE CatFrom(_, _, _)
CatFrom(order, contents, k) ==
    IF k > Len(order) THEN << >>
    ELSE contents[order[k]] \o << "\n", "\n" >> \o CatFrom(order, contents, k + 1)

IsConcatOf(text, contents, names) ==
    \E o \in Orders(names) : text = CatFrom(o, contents, 1)

FinalText(r) == cwd[run[r].final_file]

\* ---- C1
\* C1: when concatenate_transcripts has returned, final_file consists exactly
\* of the content of every file of the output directory whose name ends in
\* ".txt" at call time, each once and each followed by two newlines, in some
\* listing order; no other file and nothing of its previous content is in it.
C1_ConcatenateExact ==
    \A r \in AllRuns :
        run[r].pc = "done" =>
            /\ run[r].final_file \in DOMAIN cwd
            /\ IsConcatOf(FinalText(r), hist[r].atCall, TxtNames(hist[r].atCall))

\* Concatenation has run over two .txt files and a file of another name,
\* onto a final_file that existed before.
C1_Witness ==
    \E r \in AllRuns :
        /\ run[r].pc = "done"
        /\ Cardinality(TxtNames(hist[r].atCall)) >= 2
        /\ OldLog \in DOMAIN hist[r].atCall
        /\ run[r].final_file \in DOMAIN hist[r].before

\* ---- C2
\* The text cleaned for a video whose fetch returned.
CleanedFor(video_id) ==
    remove_timestamps(get_transcript_text(api[video_id].fragments))

Succeeded(r) == { v \in Range(run[r].video_ids) : ~api[v].raises }

SucceededFiles(r) ==
    [ n \in { TranscriptFileName(v) : v \in Succeeded(r) } |->
        CleanedFor(CHOOSE v \in Succeeded(r) : TranscriptFileName(v) = n) ]

\* C2: whichever fetches raise, the run processes every identifier and
\* reaches concatenation; afterwards <id>.txt exists exactly for the listed
\* identifiers whose fetch succeeded, and the combined file holds only the
\* cleaned texts of those, each followed by a blank line.
C2_FailedFetchesSkipped ==
    \A r \in AllRuns :
        run[r].pc = "done" =>
            /\ hist[r].fetches = Len(run[r].video_ids)
            /\ \A v \in Range(run[r].video_ids) :
                  TranscriptFileName(v) \in DOMAIN files <=> v \in Succeeded(r)
            /\ IsConcatOf(FinalText(r), SucceededFiles(r), DOMAIN SucceededFiles(r))

\* ---- C3
\* C3: when listing the channel's videos raises, the run is over with no
\* transcript fetched, no per-video file written, and the combined file
\* neither created nor modified.
C3_ListingFailureAborts ==
    \A r \in AllRuns :
        hist[r].error = "listing" =>
            /\ run[r].pc = "raised"
            /\ hist[r].fetches = 0
            /\ hist[r].written = NoFiles
            /\ \A n \in DOMAIN files : n \in StaleNames /\ files[n] = StaleContent[n]
            /\ ~hist[r].created
            /\ cwd = hist[r].before

\* The listing has raised in a run whose final_file existed before and whose
\* output directory still holds a file.
C3_Witness ==
    \E r \in AllRuns :
        /\ hist[r].error = "listing"
        /\ run[r].final_file \in DOMAIN cwd
        /\ files # NoFiles

\* ---- C4
\* C4: when the listing returns no identifier, the run raises nothing and,
\* at its end, the combined file exists and is empty.
C4_EmptyChannel ==
    \A r \in AllRuns :
        (hist[r].listed /\ hist[r].error # "listing" /\ run[r].total_videos = 0) =>
            /\ run[r].pc # "raised"
            /\ run[r].pc = "done" =>
                  (run[r].final_file \in DOMAIN cwd /\ FinalText(r) = << >>)

\* ---- C5
\* C5: when clear_transcript_folder returns, the deletion of every regular
\* file that was in the folder has been attempted, the failed ones are those
\* whose unlink raises, and the regular files left are exactly the failed
\* ones (none when no deletion fails).
C5_ClearLeavesOnlyFailures ==
    \A r \in AllRuns :
        run[r].pc = "listing" =>
            /\ hist[r].cleared
            /\ hist[r].attempted = hist[r].atClear
            /\ hist[r].failed = hist[r].atClear \cap undeletable
            /\ DOMAIN files = hist[r].failed

\* The clear has returned after one deletion failed and another succeeded.
C5_Witness ==
    \E r \in AllRuns :
        /\ run[r].pc = "listing"
        /\ hist[r].failed # {}
        /\ hist[r].attempted \ hist[r].failed # {}
        /\ SubDir \in subdirs

\* ---- C9
\* C9: the output directory exists and the clear is over before the listing
\* and before any download, and concatenation starts only after the last
\* download; so when no deletion of the clear failed, the regular files at
\* concatenation time are exactly the files this run wrote, and the combined
\* file is made of those alone.
C9_ClearedBeforeUse ==
    \A r \in AllRuns :
        /\ run[r].pc \notin {"idle", "refused", "makedirs"} => dirExists
        /\ hist[r].listed => hist[r].cleared
        /\ hist[r].fetches > 0 => (hist[r].listed /\ hist[r].cleared)
        /\ hist[r].created => hist[r].downloaded = Len(run[r].video_ids)
        /\ (run[r].pc \in {"concat", "done"} /\ hist[r].failed = {}) =>
              hist[r].atCall = hist[r].written
        /\ (run[r].pc = "done" /\ hist[r].failed = {}) =>
              IsConcatOf(FinalText(r), hist[r].written, DOMAIN hist[r].written)

\* A run is over that found two stale transcripts, deleted both and wrote a
\* transcript of its own.
C9_Witness ==
    \E r \in AllRuns :
        /\ run[r].pc = "done"
        /\ hist[r].failed = {}
        /\ {OldA1, OldTxt} \subseteq hist[r].atClear
        /\ hist[r].written # NoFiles

\* ---- C10
\* C10 as stated: whenever the progress indicator shows video i of N, the
\* download of video i has completed.
C10_ReportedAfterDownload ==
    \A r \in AllRuns :
        run[r].status_text >= 1 => hist[r].downloaded >= run[r].status_text

\* C10 as amended: the indicator is set at the head of iteration i, before
\* the download of video i: while it shows video i of N (i/N as a
\* percentage) the downloads of videos 1..i-1 have completed and, until
\* download_transcript returns, that of video i has not.
C10_ReportedBeforeDownload ==
    \A r \in AllRuns :
        run[r].status_text >= 1 =>
            /\ run[r].progress_bar =
                  (run[r].status_text * 100) \div run[r].total_videos
            /\ hist[r].downloaded >= run[r].status_text - 1
            /\ run[r].pc = "download" =>
                  hist[r].downloaded = run[r].status_text - 1

\* The indicator shows 100% for the last of two videos, whose download has
\* not completed.
C10_Witness ==
    \E r \in AllRuns :
        /\ run[r].total_videos = 2
        /\ run[r].status_text = 2
        /\ run[r].progress_bar = 100
        /\ hist[r].downloaded = 1

\* ---- C6, C7: the timestamp pattern, restated position by position
\* HH:MM:SS,mmm --> HH:MM:SS,mmm at the start of the line.
TimestampLiterals ==
    (3 :> ":") @@ (6 :> ":") @@ (9 :> ",") @@ (13 :> " ") @@ (14 :> "-") @@
    (15 :> "-") @@ (16 :> ">") @@ (17 :> " ") @@ (20 :> ":") @@ (23 :> ":") @@
    (26 :> ",")

MatchesTimestamp(line) ==
    /\ Len(line) >= 29
    /\ \A k \in 1..29 :
          IF k \in DOMAIN TimestampLiterals
          THEN line[k] = TimestampLiterals[k]
          ELSE line[k] \in {"0", "1", "2", "3", "4", "5", "6", "7", "8", "9"}

NotTimestamp(line) == ~MatchesTimestamp(line)

\* Where fragment j starts in the fragments joined with one separator each.
RECURSIVE Offset(_, _)
Offset(frags, j) ==
    IF j = 1 THEN 0 ELSE Offset(frags, j - 1) + Len(frags[j - 1]) + 1

\* text is the fragments in order with exactly one space between neighbours.
IsSpaceJoin(text, frags) ==
    IF Len(frags) = 0 THEN text = << >>
    ELSE /\ Len(text) = Offset(frags, Len(frags)) + Len(frags[Len(frags)])
         /\ \A j \in 1..Len(frags) :
               /\ SubSeq(text, Offset(frags, j) + 1,
                         Offset(frags, j) + Len(frags[j])) = frags[j]
               /\ j < Len(frags) => text[Offset(frags, j) + Len(frags[j]) + 1] = " "

\* out is text with the lines matching the timestamp pattern removed.
IsWithoutTimestampLines(out, text) ==
    LET kept == SelectSeq(Split(text, "\n"), NotTimestamp)
    IN  IF kept = << >> THEN out = << >> ELSE Split(out, "\n") = kept

\* C6: the text download_transcript writes is the fragment texts joined with
\* single spaces, with every line matching the timestamp pattern removed,
\* and cleaning that text once more returns it unchanged.
C6_FetchAndClean ==
    /\ cpc \in {"written", "again"} =>
          /\ IsSpaceJoin(srt_text, fragments)
          /\ IsWithoutTimestampLines(cleaned_text, srt_text)
    /\ cpc = "again" => again = cleaned_text

\* Several fragments were joined, cleaning removed a timestamp line and kept
\* other text, and the cleaned text has been cleaned again.
C6_Witness ==
    /\ cpc = "again"
    /\ Len(fragments) >= 2
    /\ cleaned_text # << >>
    /\ Len(Split(cleaned_text, "\n")) < Len(Split(srt_text, "\n"))

\* a is b with some of its elements left out, the order kept.
RECURSIVE IsSubsequence(_, _)
IsSubsequence(a, b) ==
    IF Len(a) = 0 THEN TRUE
    ELSE IF Len(b) = 0 THEN FALSE
    ELSE IF Head(a) = Head(b) THEN IsSubsequence(Tail(a), Tail(b))
    ELSE IsSubsequence(a, Tail(b))

\* The filter properties of one application of remove_timestamps.
IsPureFilter(text, out) ==
    LET lines == Split(text, "\n")
        kept == filtered_lines(text)
    IN  /\ IsSubsequence(kept, lines)
        /\ \A k \in 1..Len(kept) : ~MatchesTimestamp(kept[k])
        /\ Len(kept) = Cardinality({ k \in 1..Len(lines) : ~MatchesTimestamp(lines[k]) })
        /\ kept # << >> => Split(out, "\n") = kept
        /\ Len(Split(out, "\n")) <= Len(lines)

\* C7: the lines remove_timestamps retains are a subsequence of the lines of
\* its input, every retained line fails the pattern match, every dropped
\* line matches it, and the output has no more lines than the input.
C7_PureFilter ==
    /\ cpc \in {"written", "again"} => IsPureFilter(srt_text, cleaned_text)
    /\ cpc = "again" => IsPureFilter(cleaned_text, again)

\* A text of at least three lines was cleaned: a line was dropped, a line
\* that only resembles a timestamp line was kept.
C7_Witness ==
    /\ cpc = "written"
    /\ Len(Split(srt_text, "\n")) >= 3
    /\ Len(filtered_lines(srt_text)) < Len(Split(srt_text, "\n"))
    /\ \E k \in 1..Len(filtered_lines(srt_text)) :
          /\ Len(filtered_lines(srt_text)[k]) >= Len(TSbad)
          /\ SubSeq(filtered_lines(srt_text)[k], 1, Len(TSbad)) = TSbad

\* ---- C8
\* C8, its last part: a run executed alone ends with a combined file that is
\* the concatenation of the transcripts the run itself wrote.
C8_AloneNeverCorrupted ==
    \A r \in AllRuns :
        (run[r].pc = "done" /\ \A q \in AllRuns \ {r} : run[q].pc = "idle") =>
            IsConcatOf(FinalText(r), hist[r].written, DOMAIN hist[r].written)

\* C8, its first part: two interleaved runs, no deletion failing, where the
\* clear of one deleted a file the other had written and the other's combined
\* file is not the concatenation of what it wrote.
C8_RunsCorruptEachOther ==
    \E r \in AllRuns, q \in AllRuns :
        /\ r # q
        /\ undeletable = {}
        /\ run[r].pc = "done"
        /\ hist[q].attempted \cap DOMAIN hist[r].written # {}
        /\ ~IsConcatOf(FinalText(r), hist[r].written, DOMAIN hist[r].written)

====
